---- MODULE Spec2Model ----
(***************************************************************************)
(* Cursor-based pagination of the `tweets` query field (src/schema.ts).    *)
(*                                                                         *)
(* The resolver is an async function with two awaited store queries; each  *)
(* await is a point where other requests and store writers may run, so a   *)
(* call is modelled as the steps between its awaits.                       *)
(***************************************************************************)
EXTENDS Integers, Sequences, FiniteSets, TLC

VARIABLES store, pc, args, queryResults, queries, result, client, trail

vars == <<store, pc, args, queryResults, queries, result, client, trail>>

-----------------------------------------------------------------------------
(* Bounds *)

\* Identifiers range over 1..MaxId.
MaxId == 4

\* Page sizes range over -MaxFirst..MaxFirst.
MaxFirst == 3

-----------------------------------------------------------------------------
(* Data *)

\* Optional values: null / undefined is the empty tuple, a value v is <<v>>.
Null == <<>>

Some(v) == <<v>>

Ids == 1..MaxId

\* model Tweet { id Int @id @default(autoincrement()), ... }: a row is known
\* by its primary key; the other columns play no part in pagination.
Tweet == [id : Ids]

\* The Tweet table: no two rows share the primary key.
Stores == {S \in SUBSET Tweet : \A t, u \in S : t.id = u.id => t = u}

\* The request slots of the server.
Reqs == {"r1", "r2"}

\* first: intArg() -- zero and negative values are passed through unvalidated.
Firsts == (0 - MaxFirst)..MaxFirst

\* after: intArg() -- absent, 0, or any identifier.
Afters == {Null} \cup {Some(a) : a \in 0..MaxId}

Min(a, b) == IF a <= b THEN a ELSE b

Max(a, b) == IF a >= b THEN a ELSE b

-----------------------------------------------------------------------------
(* The record store: prisma.tweet.findMany *)

\* Variant: the scan runs in descending primary-key order.
RECURSIVE OrderByIdDesc(_)
OrderByIdDesc(S) ==
    IF S = {} THEN <<>>
    ELSE LET m == CHOOSE t \in S : \A u \in S : t.id >= u.id
         IN  <<m>> \o OrderByIdDesc(S \ {m})

\* Rows in ascending primary-key order.
RECURSIVE OrderById(_)
OrderById(S) ==
    IF S = {} THEN <<>>
    ELSE LET m == CHOOSE t \in S : \A u \in S : t.id <= u.id
         IN  <<m>> \o OrderById(S \ {m})

IndexOfId(rows, id) == CHOOSE i \in 1..Len(rows) : rows[i].id = id

\* findMany({ take, skip, cursor: { id } }) on table content S.
\*   - a cursor that matches no row selects nothing;
\*   - take >= 0 scans forward from the cursor row (inclusive), dropping
\*     `skip` rows first;
\*   - take < 0 scans backward from the cursor row and returns the rows in
\*     ascending order.
findMany(S, q) ==
    LET rows == OrderById(S)
        n    == Len(rows)
    IN  IF q.cursor # Null /\ ~\E t \in S : t.id = q.cursor[1] THEN <<>>
        ELSE IF q.take >= 0
        THEN LET from == (IF q.cursor = Null THEN 1
                          ELSE IndexOfId(rows, q.cursor[1])) + q.skip
                 to   == Min(n, from + q.take - 1)
             IN  SubSeq(rows, from, to)
        ELSE LET to   == (IF q.cursor = Null THEN n
                          ELSE IndexOfId(rows, q.cursor[1])) - q.skip
                 from == Max(1, to + q.take + 1)
             IN  SubSeq(rows, from, to)

-----------------------------------------------------------------------------
(* The resolver of the `tweets` field *)

\* t.string(...): the GraphQL String scalar serialises the identifier.
String(v) == ToString(v)

\* after: intArg(): a cursor string read back as the integer it prints.
IdOfCursor(s) == CHOOSE n \in 0..MaxId : String(n) = s

\* Variant: the test is args.after != null, so 0 counts as a cursor.
TruthyNotNull(after) == after # Null

\* if (args.after): null, undefined and 0 are falsy.
Truthy(after) == after # Null /\ after[1] # 0

\* Variant: the main query forgets skip: 1 and starts at the cursor row.
MainQueryNoSkip(a) ==
    IF Truthy(a.after)
    THEN [take |-> a.first, skip |-> 0, cursor |-> Some(a.after[1])]
    ELSE [take |-> a.first, skip |-> 0, cursor |-> Null]

\* The main query: with a cursor, skip the cursor row; without, no cursor.
MainQueryOf(a) ==
    IF Truthy(a.after)
    THEN [take |-> a.first, skip |-> 1, cursor |-> Some(a.after[1])]
    ELSE [take |-> a.first, skip |-> 0, cursor |-> Null]

\* Variant: the second query skips the boundary row like the main query.
SecondQuerySkip(a, myCursor) ==
    [take |-> a.first, skip |-> 1, cursor |-> Some(myCursor)]

\* The second query: positioned at the last row of the page, no skip.
SecondQueryOf(a, myCursor) ==
    [take |-> a.first, skip |-> 0, cursor |-> Some(myCursor)]

\* queryResults.map((Tweet) => ({ cursor: Tweet.id, node: Tweet }))
Edge(t) == [cursor |-> String(t.id), node |-> t]

Edges(rows) == [i \in 1..Len(rows) |-> Edge(rows[i])]

\* secondQueryResults.length >= args.first
HasNextPage(secondQueryResults, first) == Len(secondQueryResults) >= first

\* Variant: endCursor is taken from the first row of the page.
PageOfFirstCursor(rows, secondQueryResults, first) ==
    [pageInfo |-> [endCursor   |-> String(rows[1].id),
                   hasNextPage |-> HasNextPage(secondQueryResults, first)],
     edges    |-> Edges(rows)]

\* The response of the non-empty branch.
PageOf(rows, secondQueryResults, first) ==
    [pageInfo |-> [endCursor   |-> String(rows[Len(rows)].id),
                   hasNextPage |-> HasNextPage(secondQueryResults, first)],
     edges    |-> Edges(rows)]

\* Variant: the empty branch claims that more rows follow.
EmptyPageHasNext == [pageInfo |-> [endCursor |-> "", hasNextPage |-> TRUE],
                     edges    |-> <<>>]

\* The response of the empty branch.
EmptyPage == [pageInfo |-> [endCursor |-> "", hasNextPage |-> FALSE],
              edges    |-> <<>>]

\* resolve run from entry to return against one table content S.
fetchPage(S, a) ==
    LET rows == findMany(S, MainQueryOf(a))
    IN  IF Len(rows) > 0
        THEN PageOf(rows,
                    findMany(S, SecondQueryOf(a, rows[Len(rows)].id)),
                    a.first)
        ELSE EmptyPage

\* A store query as the store saw it: its parameters, the table it read and
\* whether it was answered (ok) or rejected.
Issued(q, ok) == [query |-> q, snapshot |-> store, ok |-> ok]

\* The locals of an invocation of resolve(_, args, ctx):
\* let queryResults = null, nothing queried, nothing returned.
Enter(r, first, after) ==
    /\ pc' = [pc EXCEPT ![r] = "main"]
    /\ args' = [args EXCEPT ![r] = [first |-> first, after |-> after]]
    /\ queryResults' = [queryResults EXCEPT ![r] = <<>>]
    /\ queries' = [queries EXCEPT ![r] = <<>>]
    /\ result' = [result EXCEPT ![r] = Null]
    /\ UNCHANGED store

\* resolve is entered for request r. Every request is one invocation.
Resolve(r, first, after) ==
    /\ pc[r] = "idle"
    /\ Enter(r, first, after)
    /\ UNCHANGED <<client, trail>>

\* Variant: queryResults is declared outside resolve, so a non-empty answer
\* also replaces the rows of the invocations waiting for their second query.
MainQueryShared(r) ==
    /\ pc[r] = "main"
    /\ LET q    == MainQueryOf(args[r])
           rows == findMany(store, q)
       IN  /\ queryResults' =
                  [x \in Reqs |->
                      IF x = r \/ (rows # <<>> /\ pc[x] = "lookahead")
                      THEN rows ELSE queryResults[x]]
           /\ queries' = [queries EXCEPT ![r] = Append(@, Issued(q, TRUE))]
           /\ IF Len(rows) > 0
              THEN /\ pc' = [pc EXCEPT ![r] = "lookahead"]
                   /\ UNCHANGED result
              ELSE /\ pc' = [pc EXCEPT ![r] = "done"]
                   /\ result' = [result EXCEPT ![r] = Some(EmptyPage)]
    /\ UNCHANGED <<store, args, client, trail>>

\* Variant: without orderBy the store answers in either scan direction.
MainQueryAnyOrder(r) ==
    /\ pc[r] = "main"
    /\ LET q     == MainQueryOf(args[r])
           found == findMany(store, q)
       IN  \E rows \in {found, [i \in 1..Len(found) |-> found[Len(found) + 1 - i]]} :
               /\ queryResults' = [queryResults EXCEPT ![r] = rows]
               /\ queries' = [queries EXCEPT ![r] = Append(@, Issued(q, TRUE))]
               /\ IF Len(rows) > 0
                  THEN /\ pc' = [pc EXCEPT ![r] = "lookahead"]
                       /\ UNCHANGED result
                  ELSE /\ pc' = [pc EXCEPT ![r] = "done"]
                       /\ result' = [result EXCEPT ![r] = Some(EmptyPage)]
    /\ UNCHANGED <<store, args, client, trail>>

\* The first awaited findMany answers; an empty answer returns the empty
\* response at once, a non-empty one issues the second query.
MainQuery(r) ==
    /\ pc[r] = "main"
    /\ LET q    == MainQueryOf(args[r])
           rows == findMany(store, q)
       IN  /\ queryResults' = [queryResults EXCEPT ![r] = rows]
           /\ queries' = [queries EXCEPT ![r] = Append(@, Issued(q, TRUE))]
           /\ IF Len(rows) > 0
              THEN /\ pc' = [pc EXCEPT ![r] = "lookahead"]
                   /\ UNCHANGED result
              ELSE /\ pc' = [pc EXCEPT ![r] = "done"]
                   /\ result' = [result EXCEPT ![r] = Some(EmptyPage)]
    /\ UNCHANGED <<store, args, client, trail>>

\* Variant: both queries run in one transaction, so the second query reads
\* the table as the main query read it.
SecondQueryInSnapshot(r) ==
    /\ pc[r] = "lookahead"
    /\ LET rows     == queryResults[r]
           myCursor == rows[Len(rows)].id
           q        == SecondQueryOf(args[r], myCursor)
           secondQueryResults == findMany(queries[r][1].snapshot, q)
       IN  /\ queries' = [queries EXCEPT ![r] = Append(@, Issued(q, TRUE))]
           /\ result' = [result EXCEPT ![r] =
                            Some(PageOf(rows, secondQueryResults, args[r].first))]
    /\ pc' = [pc EXCEPT ![r] = "done"]
    /\ UNCHANGED <<store, args, queryResults, client, trail>>

\* The second awaited findMany answers and the response is returned.
SecondQuery(r) ==
    /\ pc[r] = "lookahead"
    /\ LET rows     == queryResults[r]
           myCursor == rows[Len(rows)].id
           q        == SecondQueryOf(args[r], myCursor)
           secondQueryResults == findMany(store, q)
       IN  /\ queries' = [queries EXCEPT ![r] = Append(@, Issued(q, TRUE))]
           /\ result' = [result EXCEPT ![r] =
                            Some(PageOf(rows, secondQueryResults, args[r].first))]
    /\ pc' = [pc EXCEPT ![r] = "done"]
    /\ UNCHANGED <<store, args, queryResults, client, trail>>

\* Variant: the rejection is caught and the rows fetched so far are returned.
QueryFailsPartial(r) ==
    /\ pc[r] \in {"main", "lookahead"}
    /\ LET rows == queryResults[r]
           q    == IF pc[r] = "main" THEN MainQueryOf(args[r])
                   ELSE SecondQueryOf(args[r], rows[Len(rows)].id)
       IN  /\ queries' = [queries EXCEPT ![r] = Append(@, Issued(q, FALSE))]
           /\ result' = [result EXCEPT ![r] =
                            IF rows = <<>> THEN Some(EmptyPage)
                            ELSE Some(PageOf(rows, <<>>, args[r].first))]
    /\ pc' = [pc EXCEPT ![r] = "failed"]
    /\ UNCHANGED <<store, args, queryResults, client, trail>>

\* An awaited findMany rejects (store unavailable); there is no try/catch,
\* so the rejection leaves resolve and nothing is returned.
QueryFails(r) ==
    /\ pc[r] \in {"main", "lookahead"}
    /\ LET rows == queryResults[r]
           q    == IF pc[r] = "main" THEN MainQueryOf(args[r])
                   ELSE SecondQueryOf(args[r], rows[Len(rows)].id)
       IN  queries' = [queries EXCEPT ![r] = Append(@, Issued(q, FALSE))]
    /\ pc' = [pc EXCEPT ![r] = "failed"]
    /\ UNCHANGED <<store, args, queryResults, result, client, trail>>

-----------------------------------------------------------------------------
(* Writers of the Tweet table (Prisma Studio) *)

\* A write is observable by a call only when it lands between the call's two
\* queries; every table content before the first query is an initial state.
InFlight == \E r \in Reqs : pc[r] = "lookahead"

Insert(t) ==
    /\ InFlight
    /\ \A u \in store : u.id # t.id
    /\ store' = store \cup {t}
    /\ UNCHANGED <<pc, args, queryResults, queries, result, client, trail>>

Delete(t) ==
    /\ InFlight
    /\ t \in store
    /\ store' = store \ {t}
    /\ UNCHANGED <<pc, args, queryResults, queries, result, client, trail>>

-----------------------------------------------------------------------------
(* The client that walks the list: pass endCursor as the next `after` until
   hasNextPage is false. Its requests follow one another in slot "r1". *)

\* The first query: first: N, after: null.
TraverseStart(first) ==
    /\ client = "idle"
    /\ pc["r1"] = "idle"
    /\ Enter("r1", first, Null)
    /\ client' = "walking"
    /\ UNCHANGED trail

\* hasNextPage is true: note the endCursor and query again with after: it.
TraverseNext ==
    /\ client = "walking"
    /\ pc["r1"] = "done"
    /\ result["r1"][1].pageInfo.hasNextPage
    /\ Enter("r1", args["r1"].first,
             Some(IdOfCursor(result["r1"][1].pageInfo.endCursor)))
    /\ trail' = Append(trail, result["r1"][1])
    /\ UNCHANGED client

\* hasNextPage is false: the walk is over.
TraverseEnd ==
    /\ client = "walking"
    /\ pc["r1"] = "done"
    /\ ~result["r1"][1].pageInfo.hasNextPage
    /\ trail' = Append(trail, result["r1"][1])
    /\ client' = "finished"
    /\ UNCHANGED <<store, pc, args, queryResults, queries, result>>

-----------------------------------------------------------------------------
(* Specifications *)

Init ==
    /\ store \in Stores
    /\ pc = [r \in Reqs |-> "idle"]
    /\ args = [r \in Reqs |-> [first |-> 0, after |-> Null]]
    /\ queryResults = [r \in Reqs |-> <<>>]
    /\ queries = [r \in Reqs |-> <<>>]
    /\ result = [r \in Reqs |-> Null]
    /\ client = "idle"
    /\ trail = <<>>

\* One request at a time against a table that writers change.
Next ==
    \/ \E first \in Firsts, after \in Afters : Resolve("r1", first, after)
    \/ MainQuery("r1")
    \/ SecondQuery("r1")
    \/ QueryFails("r1")
    \/ \E t \in Tweet : Insert(t)
    \/ \E t \in Tweet : Delete(t)

Spec == Init /\ [][Next]_vars

\* Requests for page sizes >= 0 interleaved on a table nobody writes.
NextConcurrent ==
    \/ \E r \in Reqs, first \in 0..MaxFirst, after \in Afters :
           Resolve(r, first, after)
    \/ \E r \in Reqs : MainQuery(r)
    \/ \E r \in Reqs : SecondQuery(r)
    \/ \E r \in Reqs : QueryFails(r)

SpecConcurrent == Init /\ [][NextConcurrent]_vars

\* One client walking a table nobody writes, with a page size >= 1.
NextTraverse ==
    \/ \E first \in 1..MaxFirst : TraverseStart(first)
    \/ MainQuery("r1")
    \/ SecondQuery("r1")
    \/ TraverseNext
    \/ TraverseEnd

SpecTraverse == Init /\ [][NextTraverse]_vars

\* The walk goes on: the store answers every query and the client issues its
\* next query as soon as a page with hasNextPage = true has arrived.
SpecTraverseFair == SpecTraverse /\ WF_vars(NextTraverse)

-----------------------------------------------------------------------------
(* Properties of a single call *)

Returned(r) == pc[r] = "done"

PageReturned(r) == result[r][1]

\* The table as the main query read it.
MainSnapshot(r) == queries[r][1].snapshot

\* Every query of the call read the same table.
StoreUnchanged(r) ==
    \A i \in DOMAIN queries[r] : queries[r][i].snapshot = MainSnapshot(r)

\* The N lowest-identifier rows of S above identifier lo.
ReferenceSlice(S, N, lo) ==
    {t \in S : /\ t.id > lo
               /\ Cardinality({u \in S : lo < u.id /\ u.id < t.id}) < N}

\* C1: for every table, every first = N >= 1 and a cursor that is absent or
\* names an existing row, the edges are the N lowest rows above the cursor
\* (all rows from the start when absent), one edge per row in ascending
\* order, cursor = the row's identifier, node = the row; never more than N
\* edges, and a table of exactly N rows without cursor is returned whole.
C1_EdgesAreReferenceSlice ==
    \A r \in Reqs :
        (/\ Returned(r)
         /\ args[r].first >= 1
         /\ \/ args[r].after = Null
            \/ \E t \in MainSnapshot(r) : t.id = args[r].after[1])
        => LET S     == MainSnapshot(r)
               N     == args[r].first
               lo    == IF args[r].after = Null THEN 0 ELSE args[r].after[1]
               ref   == ReferenceSlice(S, N, lo)
               edges == PageReturned(r).edges
           IN  /\ Len(edges) = Cardinality(ref)
               /\ Len(edges) <= N
               /\ \A i \in 1..Len(edges) :
                      /\ edges[i].node \in ref
                      /\ edges[i].cursor = ToString(edges[i].node.id)
               /\ \A i, j \in 1..Len(edges) :
                      i < j => edges[i].node.id < edges[j].node.id
               /\ (args[r].after = Null /\ Cardinality(S) = N)
                      => {edges[i].node : i \in 1..Len(edges)} = S

\* A page after an existing cursor that is cut off by the page size.
C1_Witness ==
    \E r \in Reqs :
        /\ Returned(r)
        /\ args[r].first = 2
        /\ args[r].after = Some(1)
        /\ Cardinality(MainSnapshot(r)) = 4
        /\ Len(PageReturned(r).edges) = 2
        /\ PageReturned(r).edges[1].node.id = 2

\* C4 (as claimed): on an unchanged table, a non-empty page has hasNextPage
\* exactly when some row has an identifier greater than endCursor.
C4_HasNextPageIffMoreRows ==
    \A r \in Reqs :
        (/\ Returned(r)
         /\ StoreUnchanged(r)
         /\ args[r].first >= 1
         /\ PageReturned(r).edges # <<>>)
        => (PageReturned(r).pageInfo.hasNextPage
              <=> \E t \in MainSnapshot(r) :
                      t.id > IdOfCursor(PageReturned(r).pageInfo.endCursor))

\* C5: whenever the main query returns no row (empty table with first >= 0,
\* no row after the cursor, or first = 0) the call returns edges = [],
\* endCursor = "", hasNextPage = false and issues only the main query.
C5_EmptyMainResultGivesEmptyPage ==
    \A r \in Reqs :
        (/\ Returned(r)
         /\ \/ queryResults[r] = <<>>
            \/ args[r].first >= 0 /\ MainSnapshot(r) = {}
            \/ args[r].first = 0
            \/ /\ args[r].first >= 0
               /\ Truthy(args[r].after)
               /\ \A t \in MainSnapshot(r) : t.id <= args[r].after[1])
        => /\ PageReturned(r).edges = <<>>
           /\ PageReturned(r).pageInfo.endCursor = ""
           /\ PageReturned(r).pageInfo.hasNextPage = FALSE
           /\ Len(queries[r]) = 1

\* The cursor is the last row of a non-empty table: nothing follows it.
C5_Witness ==
    \E r \in Reqs :
        /\ Returned(r)
        /\ args[r].first = 2
        /\ args[r].after = Some(3)
        /\ {t.id : t \in MainSnapshot(r)} = {1, 3}
        /\ PageReturned(r).edges = <<>>

\* C6: endCursor is the cursor of the last edge of a non-empty page and the
\* empty string on an empty page, for every input and table.
C6_EndCursorIsLastEdge ==
    \A r \in Reqs :
        Returned(r)
        => LET page == PageReturned(r)
           IN  IF page.edges # <<>>
               THEN page.pageInfo.endCursor = page.edges[Len(page.edges)].cursor
               ELSE page.pageInfo.endCursor = ""

\* A page of three edges.
C6_Witness ==
    \E r \in Reqs :
        /\ Returned(r)
        /\ Len(PageReturned(r).edges) = 3
        /\ PageReturned(r).pageInfo.endCursor = "4"

\* C7: the edges of every page are in strictly ascending identifier order.
C7_EdgesStrictlyAscending ==
    \A r \in Reqs :
        Returned(r)
        => LET edges == PageReturned(r).edges
           IN  \A i \in 1..(Len(edges) - 1) :
                   IdOfCursor(edges[i].cursor) < IdOfCursor(edges[i + 1].cursor)

\* A page of three edges taken from a table with a gap in its identifiers.
C7_Witness ==
    \E r \in Reqs :
        /\ Returned(r)
        /\ {t.id : t \in MainSnapshot(r)} = {1, 3, 4}
        /\ Len(PageReturned(r).edges) = 3

\* C9: a call returns a complete page or fails. A rejected query ends the
\* call with nothing returned and no further query (no retry), also when
\* the main query had already fetched rows; a returned page comes from
\* queries that were all answered.
C9_CompletePageOrFailure ==
    \A r \in Reqs :
        /\ pc[r] = "failed"
           => /\ result[r] = Null
              /\ Len(queries[r]) \in {1, 2}
              /\ ~queries[r][Len(queries[r])].ok
              /\ \A i \in 1..(Len(queries[r]) - 1) : queries[r][i].ok
        /\ result[r] # Null
           => /\ pc[r] = "done"
              /\ \A i \in DOMAIN queries[r] : queries[r][i].ok

\* The main query fetched rows and the second query was rejected.
C9_Witness ==
    \E r \in Reqs :
        /\ pc[r] = "failed"
        /\ Len(queryResults[r]) = 2
        /\ Len(queries[r]) = 2
        /\ queries[r][1].ok

\* C10: after a non-empty main result ending at lastId the second query is
\* { take: first, cursor: lastId } without skip, and on an unchanged table
\* hasNextPage holds exactly when at least `first` rows have an identifier
\* >= lastId; with first = 1 every non-empty page reports hasNextPage.
C10_LookaheadIncludesBoundary ==
    \A r \in Reqs :
        (Returned(r) /\ queryResults[r] # <<>>)
        => LET rows   == queryResults[r]
               lastId == rows[Len(rows)].id
               first  == args[r].first
               page   == PageReturned(r)
           IN  /\ Len(queries[r]) = 2
               /\ queries[r][2].query =
                      [take |-> first, skip |-> 0, cursor |-> Some(lastId)]
               /\ (StoreUnchanged(r) /\ first >= 1)
                      => (page.pageInfo.hasNextPage
                            <=> Cardinality({t \in MainSnapshot(r) :
                                                t.id >= lastId}) >= first)
               /\ (StoreUnchanged(r) /\ first = 1)
                      => page.pageInfo.hasNextPage

\* The page holding the last row of the table still reports hasNextPage.
C10_Witness ==
    \E r \in Reqs :
        /\ Returned(r)
        /\ StoreUnchanged(r)
        /\ args[r].first = 1
        /\ args[r].after = Some(3)
        /\ {t.id : t \in store} = {1, 3, 4}
        /\ PageReturned(r).pageInfo.endCursor = "4"
        /\ PageReturned(r).pageInfo.hasNextPage

-----------------------------------------------------------------------------
(* Properties of two calls with the same arguments *)

-----------------------------------------------------------------------------
(* Properties of the walk *)

RECURSIVE NodesOf(_)
\* The nodes of the pages of a walk, in the order the client received them.
NodesOf(pages) ==
    IF pages = <<>> THEN <<>>
    ELSE [i \in 1..Len(Head(pages).edges) |-> Head(pages).edges[i].node]
            \o NodesOf(Tail(pages))

\* C2 (as claimed): with first = N and more than N rows, the first page has
\* N edges and hasNextPage = true, and the page fetched with after = its
\* endCursor holds the rows that follow it, no overlap, no gap.
C2_NextPageFollowsFirst ==
    (Len(trail) >= 1 /\ Cardinality(store) > args["r1"].first)
    => LET N     == args["r1"].first
           rows  == OrderById(store)
           page1 == trail[1]
       IN  /\ Len(page1.edges) = N
           /\ page1.pageInfo.hasNextPage
           /\ Len(trail) >= 2
              => NodesOf(<<trail[2]>>)
                    = SubSeq(rows, N + 1, IF Len(rows) < 2 * N THEN Len(rows)
                                          ELSE 2 * N)

\* C3 (as claimed): the walk that ends on hasNextPage = false has received
\* every row of the table exactly once, in ascending identifier order.
C3_WalkVisitsEveryRow ==
    client = "finished" => NodesOf(trail) = OrderById(store)

-----------------------------------------------------------------------------
(* Properties of a call overtaken by a writer *)

\* The table as the second query read it.
SecondSnapshot(r) == queries[r][2].snapshot

\* C11: the two queries of a call are separate reads. For first >= 1 and a
\* non-empty main result, edges and endCursor are those of the table the
\* main query read, while hasNextPage counts the rows at or after the last
\* edge in the table the second query read (none if that row is gone) --
\* whatever a writer did in between.
C11_PageMixesTwoReads ==
    \A r \in Reqs :
        (Returned(r) /\ args[r].first >= 1 /\ queryResults[r] # <<>>)
        => LET page   == PageReturned(r)
               early  == fetchPage(MainSnapshot(r), args[r])
               lastId == IdOfCursor(page.pageInfo.endCursor)
               late   == SecondSnapshot(r)
           IN  /\ Len(queries[r]) = 2
               /\ page.edges = early.edges
               /\ page.pageInfo.endCursor = early.pageInfo.endCursor
               /\ page.pageInfo.hasNextPage
                    <=> /\ \E t \in late : t.id = lastId
                        /\ Cardinality({t \in late : t.id >= lastId})
                              >= args[r].first

\* A writer acted between the two queries and the returned hasNextPage is
\* not the one a call on the final table returns, while the edges are those
\* of the earlier table and no longer those of the final one.
C11_Witness ==
    \E r \in Reqs :
        /\ Returned(r)
        /\ args[r].first >= 1
        /\ queryResults[r] # <<>>
        /\ MainSnapshot(r) # SecondSnapshot(r)
        /\ store = SecondSnapshot(r)
        /\ PageReturned(r).pageInfo.hasNextPage
              # fetchPage(store, args[r]).pageInfo.hasNextPage
        /\ PageReturned(r).edges = fetchPage(MainSnapshot(r), args[r]).edges
        /\ PageReturned(r).edges # fetchPage(store, args[r]).edges

-----------------------------------------------------------------------------
(* Properties of interleaved calls *)

\* C12: calls are independent. However the queries of concurrent requests
\* interleave on a table nobody writes, no step changes the table, every
\* query reads that same table, and each call returns exactly the page it
\* returns when run alone on it.
C12_ConcurrentCallsIndependent ==
    /\ [][store' = store]_vars
    /\ [](\A r \in Reqs :
            /\ \A i \in DOMAIN queries[r] : queries[r][i].snapshot = store
            /\ Returned(r) => PageReturned(r) = fetchPage(store, args[r]))

\* A request ran from entry to return between the two queries of another
\* request with different arguments; both have a non-empty main result.
C12_Witness ==
    /\ pc["r1"] = "lookahead"
    /\ Returned("r2")
    /\ args["r1"] = [first |-> 2, after |-> Null]
    /\ args["r2"] = [first |-> 3, after |-> Some(2)]
    /\ Len(queryResults["r1"]) = 2
    /\ Len(PageReturned("r2").edges) = 2

\* C13: after = 0 is falsy, so the call issues the first-page query (no
\* cursor, no skip) and returns the same page as a call with the same first
\* and no cursor, whatever the table holds.
C13_AfterZeroIsNoCursor ==
    /\ \A r \in Reqs :
           (args[r].after = Some(0) /\ queries[r] # <<>>)
           => queries[r][1].query =
                  [take |-> args[r].first, skip |-> 0, cursor |-> Null]
    /\ \A r1, r2 \in Reqs :
           (/\ Returned(r1) /\ Returned(r2)
            /\ args[r1].after = Some(0)
            /\ args[r2].after = Null
            /\ args[r1].first = args[r2].first)
           => PageReturned(r1) = PageReturned(r2)

\* A call with after = 0 and a call without cursor both returned a page of
\* two edges from a table of three rows.
C13_Witness ==
    /\ Returned("r1") /\ Returned("r2")
    /\ args["r1"] = [first |-> 2, after |-> Some(0)]
    /\ args["r2"] = [first |-> 2, after |-> Null]
    /\ Cardinality(store) = 3
    /\ Len(PageReturned("r1").edges) = 2
    /\ PageReturned("r1").edges = PageReturned("r2").edges

-----------------------------------------------------------------------------
(* Termination of the walk *)

\* The pages the client has received so far, the one just returned included.
Received ==
    IF client = "walking" /\ Returned("r1")
    THEN Append(trail, PageReturned("r1")) ELSE trail

\* C14: on an unchanged finite table and for every first >= 1 the walk ends:
\* a page with hasNextPage = false is eventually received, after at most one
\* call more than the table has rows, and every page before it is non-empty
\* with an endCursor strictly greater than the previous endCursor.
C14_WalkTerminates ==
    /\ <>(client = "finished")
    /\ [](/\ Len(Received) <= Cardinality(store) + 1
          /\ \A i \in 1..Len(Received) :
                Received[i].pageInfo.hasNextPage
                => /\ Received[i].edges # <<>>
                   /\ i > 1 => IdOfCursor(Received[i].pageInfo.endCursor)
                                 > IdOfCursor(Received[i - 1].pageInfo.endCursor))

\* A walk of page size 1 over three rows has ended after four calls.
C14_Witness ==
    /\ client = "finished"
    /\ args["r1"].first = 1
    /\ Cardinality(store) = 3
    /\ Len(trail) = 4
    /\ trail[4].edges = <<>>

====
